---- MODULE Spec2Model ----
(***************************************************************************)
(* Model of the request/response logic of the Roshn Pulse front end         *)
(* (frontend/roshn-pulse-app/src/App.tsx): the App component's view state,  *)
(* the four submit handlers (submitBrain, submitVision, submitScribeFile,   *)
(* submitScribeText), the input change handlers and the submit controls.    *)
(*                                                                         *)
(* A handler is an async function.  Everything up to its fetch() runs in    *)
(* the submit event (one Submit action); everything after the fetch         *)
(* settles writes state only in one synchronous stretch after the last      *)
(* await (setXResult ... setBusy(null)), so the rest of the handler is one  *)
(* Complete action.  Calls in flight are kept in `pending`.                 *)
(*                                                                         *)
(* Numbers with decimals are kept as integers (hundredths / thousandths),   *)
(* and arithmetic on them is exact.                                        *)
(***************************************************************************)
EXTENDS Integers, Sequences, FiniteSets, TLC

VARIABLES
    busy,            \* useState<null|"brain"|"vision"|"scribe">, App.tsx:125
    brainJson,       \* text of the risk payload textarea, App.tsx:135
    brainResult,     \* App.tsx:151
    visionResult,    \* App.tsx:153
    visionOverlay,   \* App.tsx:154
    visionFileName,  \* App.tsx:155
    visionFile,      \* visionFileRef.current.files[0], App.tsx:156
    scribeText,      \* App.tsx:158
    scribeResult,    \* App.tsx:159
    apiBaseEnv,      \* import.meta.env.VITE_API_BASE ("" when not set)
    pending,         \* fetch() calls not settled yet, in submission order
    alerts,          \* alert() messages raised by the latest step
    event            \* what the latest step was

vars == <<busy, brainJson, brainResult, visionResult, visionOverlay,
          visionFileName, visionFile, scribeText, scribeResult,
          apiBaseEnv, pending, alerts, event>>

----------------------------------------------------------------------------
(* Bounds *)

\* largest number of fetch() calls outstanding at the same time
MaxInFlight == 2

----------------------------------------------------------------------------
(* Values *)

\* JavaScript null, as a stored result
JNull == [jsnull |-> TRUE]

\* visionOverlay === null
NoOverlay == "<null>"

\* busy === null
NoBusy == "null"

\* no file selected in a file input (files[0] is undefined)
NoFile == "<no file>"

\* import.meta.env.VITE_API_BASE?.toString() || "http://localhost:8000"
API_BASE == IF apiBaseEnv = "" THEN "http://localhost:8000" ELSE apiBaseEnv

\* values the deployment can give VITE_API_BASE
ApiBaseEnvs == {"", "https://api.example.com"}

\* the files a user can pick
Files == {"site.png"}

\* files the imagery picker can hold
PickerFiles == Files \cup {"gate.png"}

\* initial text of the payload textarea (the pretty-printed features object)
DefaultBrainJson == "{\"features\": {\"Budget\": 120000000}}"

\* payload texts a user can type
BrainJsonTexts == {DefaultBrainJson, "", "{bad"}

\* extraction texts a user can type, as sequences of characters
ScribeInputTexts == {<<>>, <<" ">>, <<" ", "x">>}

Whitespace == {" ", "\n", "\t"}

\* response bodies of POST /predict-delay (risk_score in hundredths,
\* impact in thousandths)
BrainA == [risk_score |-> 73, risk_band |-> "High",
           top_contributors |-> <<[feature |-> "Budget", impact |-> 210]>>]
BrainB == [risk_score |-> 10, risk_band |-> "Low"]

\* a body whose contributor has no impact:
\* {"risk_score": 0.5, "risk_band": "Medium",
\*  "top_contributors": [{"feature": "Budget"}]}
BrainC == [risk_score |-> 50, risk_band |-> "Medium",
           top_contributors |-> <<[feature |-> "Budget"]>>]

\* a body with seven contributors, and one with an empty list
FeatureNames == <<"Budget", "Weather", "Permits", "Labour", "Supply",
                  "Design", "Scope">>
BrainD == [risk_score |-> 88, risk_band |-> "High",
           top_contributors |->
               [k \in 1..Len(FeatureNames) |->
                   [feature |-> FeatureNames[k], impact |-> 800 - 100 * k]]]
BrainE == [risk_score |-> 20, risk_band |-> "Low", top_contributors |-> <<>>]

\* response bodies of POST /analyze-image (compliance_rate in thousandths)
VisionA == [detections |-> <<>>, persons |-> 4, helmeted_persons |-> 3,
            compliance_rate |-> 750, overlay_url |-> "/overlays/x.png"]
VisionB == [detections |-> <<>>, persons |-> 2, helmeted_persons |-> 2,
            compliance_rate |-> 1000]

\* a body with another overlay reference
VisionC == [persons |-> 1, overlay_url |-> "/overlays/y.png"]

\* response bodies of POST /extract
ScribeA == [project |-> "Sedra", personnel_count |-> 42,
            export_csv_url |-> "/exports/report.csv"]
ScribeB == [date |-> "2025-01-01", low_confidence |-> TRUE]

\* a body with seven issues, and one with an empty list
IssueTypes == <<"delay", "safety", "quality", "weather", "staffing",
                "materials", "access">>
ScribeC == [project |-> "Sedra",
            issues |-> [k \in 1..Len(IssueTypes) |->
                           [type |-> IssueTypes[k], summary |-> "noted"]]]
ScribeD == [project |-> "Sedra", issues |-> <<>>]

\* compliance ratios a response can carry, in thousandths (steps of 0.005)
Ratios == {5 * k : k \in 0..200}

\* the body {"compliance_rate": r} as text (895e-3 is the number 0.895)
RatioText(r) == "{\"compliance_rate\": " \o ToString(r) \o "e-3}"

RatioTexts == {RatioText(r) : r \in Ratios}

\* the number such a body carries
RatioOfText == [t \in RatioTexts |-> CHOOSE r \in Ratios : RatioText(r) = t]

\* body of a non-2xx response
ErrorText == "{\"detail\": \"Internal Server Error\"}"

\* texts a server can put in the body of a 2xx response, per endpoint
BrainTexts  == {"brainA", "brainB", "null", "<html>"}
VisionTexts == {"visionA", "visionB", "null", "<html>"}
ScribeTexts  == {"scribeA", "scribeB", "null", "<html>"}

\* 2xx bodies with a long or an empty list
ListBrainTexts == {"brainD", "brainE"}
IssueTexts == {"scribeC", "scribeD"}

\* a further 2xx body of POST /analyze-image
OverlayTexts == {"visionC"}

\* 2xx bodies of POST /predict-delay with a field of a list element left out
PartialBrainTexts == {"brainC"}

----------------------------------------------------------------------------
(* Platform functions the handlers call *)

\* JSON.parse / response.json(): throws (ok = FALSE) or returns a value
JSONParse(t) ==
    CASE t = "{}"             -> [ok |-> TRUE, value |-> [payload |-> "{}"]]
      [] t = DefaultBrainJson -> [ok |-> TRUE, value |-> [payload |-> "features"]]
      [] t = "null"           -> [ok |-> TRUE, value |-> JNull]
      [] t = ErrorText        ->
            [ok |-> TRUE, value |-> [detail |-> "Internal Server Error"]]
      [] t = "brainA"         -> [ok |-> TRUE, value |-> BrainA]
      [] t = "brainB"         -> [ok |-> TRUE, value |-> BrainB]
      [] t = "brainC"         -> [ok |-> TRUE, value |-> BrainC]
      [] t = "brainD"         -> [ok |-> TRUE, value |-> BrainD]
      [] t = "brainE"         -> [ok |-> TRUE, value |-> BrainE]
      [] t = "scribeC"        -> [ok |-> TRUE, value |-> ScribeC]
      [] t = "scribeD"        -> [ok |-> TRUE, value |-> ScribeD]
      [] t = "visionA"        -> [ok |-> TRUE, value |-> VisionA]
      [] t = "visionB"        -> [ok |-> TRUE, value |-> VisionB]
      [] t = "visionC"        -> [ok |-> TRUE, value |-> VisionC]
      [] t = "scribeA"        -> [ok |-> TRUE, value |-> ScribeA]
      [] t = "scribeB"        -> [ok |-> TRUE, value |-> ScribeB]
      [] t \in RatioTexts      ->
            [ok |-> TRUE,
             value |-> [compliance_rate |-> RatioOfText[t]]]
      [] OTHER                -> [ok |-> FALSE, value |-> JNull]

RECURSIVE TrimStart(_)
TrimStart(s) ==
    IF s = <<>> THEN s
    ELSE IF Head(s) \in Whitespace THEN TrimStart(Tail(s)) ELSE s

RECURSIVE TrimEnd(_)
TrimEnd(s) ==
    IF s = <<>> THEN s
    ELSE IF s[Len(s)] \in Whitespace
         THEN TrimEnd(SubSeq(s, 1, Len(s) - 1)) ELSE s

\* String.prototype.trim
Trim(s) == TrimEnd(TrimStart(s))

\* the ways a fetch() call can settle: it rejects, or it resolves with a
\* status (response.ok) and a body text
Outcomes(texts) ==
    {[kind |-> "throw", ok |-> FALSE, text |-> ""]} \cup
    {[kind |-> "http", ok |-> FALSE, text |-> ErrorText]} \cup
    {[kind |-> "http", ok |-> TRUE, text |-> t] : t \in texts}

----------------------------------------------------------------------------
Init ==
    /\ apiBaseEnv = ""
    /\ busy = NoBusy
    /\ brainJson = DefaultBrainJson
    /\ brainResult = JNull
    /\ visionResult = JNull
    /\ visionOverlay = NoOverlay
    /\ visionFileName = ""
    /\ visionFile = NoFile
    /\ scribeText = <<>>
    /\ scribeResult = JNull
    /\ pending = <<>>
    /\ alerts = <<>>
    /\ event = [handler |-> "none", kind |-> "init", cause |-> "none",
                text |-> "", overtook |-> FALSE]

----------------------------------------------------------------------------
(* Records *)

\* the latest step: the handler that ran, whether it was a submit event
\* ("submit": cause is "accepted" or "rejected") or the rest of the handler
\* after its call settled ("settled": cause is the way the call settled),
\* and the text involved (the body of a successful response; the file of a
\* file submission); overtook: the call that settled was submitted after a
\* call of the same panel that is still in flight
Ev(h, k, c, t) ==
    [handler |-> h, kind |-> k, cause |-> c, text |-> t, overtook |-> FALSE]

\* the way a call settled, as the network saw it
OutcomeClass(outcome) ==
    IF outcome.kind = "throw" THEN "transport"
    ELSE IF ~outcome.ok THEN "status"
    ELSE IF ~JSONParse(outcome.text).ok THEN "parse"
    ELSE "ok"

\* the body of a call that settled with a 2xx status and a JSON body
OutcomeBody(outcome) ==
    IF OutcomeClass(outcome) = "ok" THEN outcome.text ELSE ""

PanelOf(h) ==
    CASE h = "submitBrain" -> "brain"
      [] h = "submitVision" -> "vision"
      [] h \in {"submitScribeFile", "submitScribeText"} -> "scribe"
      [] OTHER -> "none"

Panels == {"brain", "vision", "scribe"}

\* the step in which the rest of handler h runs after its call, the i-th in
\* flight, settled
Settled(h, i, outcome) ==
    [Ev(h, "settled", OutcomeClass(outcome), OutcomeBody(outcome))
        EXCEPT !.overtook = \E j \in 1..(i - 1) :
                                pending[j].panel = PanelOf(h)]

\* a fetch() call in flight: the handler awaiting it, its panel, and the
\* file the handler captured (NoFile for the JSON requests)
Call(h, p, f) == [handler |-> h, panel |-> p, file |-> f]

RemoveAt(s, i) == SubSeq(s, 1, i - 1) \o SubSeq(s, i + 1, Len(s))

InFlight(p) == \E i \in DOMAIN pending : pending[i].panel = p

CallsInFlight(p) == Cardinality({i \in DOMAIN pending : pending[i].panel = p})

----------------------------------------------------------------------------
(* What is rendered from the state *)

\* disabled={busy === "brain"}
BrainSubmitEnabled == busy # "brain"

\* disabled={busy === "vision"}
VisionSubmitEnabled == busy # "vision"

\* disabled={busy === "scribe"}
ScribeFileSubmitEnabled == busy # "scribe"

\* disabled={busy === "scribe" || !scribeText.trim()}
ScribeTextSubmitEnabled == ~(busy = "scribe" \/ Trim(scribeText) = <<>>)

\* the panel's buttons read "Scoring..." / "Analysing..." / "Extracting..."
ShownBusy(p) == busy = p

----------------------------------------------------------------------------
(* Pieces of the handlers *)

\* the payload is sent without being parsed first
BrainPayloadParses_unchecked(text) == TRUE

\* JSON.parse(brainJson || "{}") does not throw
BrainPayloadParses(text) == JSONParse(IF text = "" THEN "{}" ELSE text).ok

\* the text is tested without trimming it
ScribeTextPresent_noTrim(text) == text # <<>>

\* !scribeText.trim() is false
ScribeTextPresent(text) == Trim(text) # <<>>

\* response.ok is not looked at
TryFetch_ignoresStatus(outcome) ==
    IF outcome.kind = "throw" \/ ~JSONParse(outcome.text).ok
    THEN [thrown |-> TRUE, data |-> JNull]
    ELSE [thrown |-> FALSE, data |-> JSONParse(outcome.text).value]

\* the try block up to and including response.json(): either something was
\* thrown (fetch rejected, !response.ok, body not JSON) or data was parsed
TryFetch(outcome) ==
    IF outcome.kind = "throw"
    THEN [thrown |-> TRUE, data |-> JNull]
    ELSE IF ~outcome.ok
    THEN [thrown |-> TRUE, data |-> JNull]
    ELSE IF ~JSONParse(outcome.text).ok
    THEN [thrown |-> TRUE, data |-> JNull]
    ELSE [thrown |-> FALSE, data |-> JSONParse(outcome.text).value]

\* the response is merged into what the slot held
SetResult_merge(prev, data) ==
    IF prev = JNull \/ data = JNull THEN data
    ELSE [f \in (DOMAIN prev) \cup (DOMAIN data) |->
             IF f \in DOMAIN data THEN data[f] ELSE prev[f]]

\* setBrainResult(data) / setVisionResult(data) / setScribeResult(data): a
\* useState setter called with a value replaces what the slot held
SetResult(prev, data) == data

\* data?.overlay_url / scribeResult?.export_csv_url is truthy
HasRef(d, f) == d # JNull /\ f \in DOMAIN d /\ d[f] # ""

\* data?.overlay_url ? `${API_BASE}${data.overlay_url}` : null
\* the overlay is resolved from the result held before the response
ResolveOverlay_fromStored(data) ==
    IF HasRef(visionResult, "overlay_url")
    THEN API_BASE \o visionResult.overlay_url
    ELSE NoOverlay

\* data?.overlay_url ? `${API_BASE}${data.overlay_url}` : null
ResolveOverlay(data) ==
    IF HasRef(data, "overlay_url") THEN API_BASE \o data.overlay_url
    ELSE NoOverlay

\* the catch block only logs
BrainCatch_silent == <<>>

\* every way a POST /predict-delay call can settle
BrainOutcomes ==
    Outcomes(BrainTexts \cup PartialBrainTexts \cup ListBrainTexts)

\* every way a POST /extract call can settle
ScribeOutcomes == Outcomes(ScribeTexts \cup IssueTexts)

\* every way a POST /analyze-image call can settle
VisionOutcomes == Outcomes(VisionTexts \cup OverlayTexts \cup RatioTexts)

\* compliancePct === null
NoPct == -1

\* the percentage is cut off instead of rounded
CompliancePct_truncates ==
    IF visionResult # JNull /\ "compliance_rate" \in DOMAIN visionResult
    THEN visionResult.compliance_rate \div 10
    ELSE NoPct

\* typeof visionResult?.compliance_rate === "number"
\*   ? Math.round((visionResult.compliance_rate ?? 0) * 100) : null
\* (the rate is in thousandths; Math.round rounds halves up)
CompliancePct ==
    IF visionResult # JNull /\ "compliance_rate" \in DOMAIN visionResult
    THEN (visionResult.compliance_rate + 5) \div 10
    ELSE NoPct

ComplianceTone ==
    IF CompliancePct = NoPct THEN "undefined"
    ELSE IF CompliancePct >= 90 THEN "ok"
    ELSE IF CompliancePct >= 70 THEN "warn"
    ELSE "bad"

\* brainResult.top_contributors.slice(0, 6), rendered only when
\* brainResult?.top_contributors?.length is truthy
ContributorsShown ==
    IF brainResult # JNull /\ "top_contributors" \in DOMAIN brainResult
          /\ Len(brainResult.top_contributors) > 0
    THEN SubSeq(brainResult.top_contributors, 1,
                IF Len(brainResult.top_contributors) < 6
                THEN Len(brainResult.top_contributors) ELSE 6)
    ELSE <<>>

\* item.impact.toFixed(3) is a TypeError when item.impact is undefined;
\* no other expression of the render dereferences a field of a response
RenderThrows ==
    \E k \in DOMAIN ContributorsShown :
        "impact" \notin DOMAIN ContributorsShown[k]

\* brainResult?.top_contributors?.length ? <list> : null
ContributorsSectionShown ==
    /\ brainResult # JNull /\ "top_contributors" \in DOMAIN brainResult
    /\ Len(brainResult.top_contributors) > 0

\* scribeResult?.issues?.length ? <list> : null
IssuesSectionShown ==
    /\ scribeResult # JNull /\ "issues" \in DOMAIN scribeResult
    /\ Len(scribeResult.issues) > 0

\* every issue is listed
IssuesShown_all ==
    IF IssuesSectionShown THEN scribeResult.issues ELSE <<>>

\* scribeResult.issues.slice(0, 6)
IssuesShown ==
    IF IssuesSectionShown
    THEN SubSeq(scribeResult.issues, 1,
                IF Len(scribeResult.issues) < 6
                THEN Len(scribeResult.issues) ELSE 6)
    ELSE <<>>

\* scribeResult?.export_csv_url ? <a ...> : null
DownloadLinkShown == HasRef(scribeResult, "export_csv_url")

\* the link points at the reference alone
DownloadHref_relative == scribeResult.export_csv_url

\* href={`${API_BASE}${scribeResult.export_csv_url}`}
DownloadHref == API_BASE \o scribeResult.export_csv_url

\* the alert() of each catch block
BrainCatch == <<"Unable to score the project right now. Check the backend.">>
VisionCatch == <<"Unable to analyse the image. Please check the backend logs.">>
ScribeFileCatch == <<"File extraction failed. Check the backend service.">>
ScribeTextCatch ==
    <<"Text extraction failed. Please retry once the backend is ready.">>

----------------------------------------------------------------------------
(* Input change handlers *)

SetBrainJson(t) ==
    /\ t \in BrainJsonTexts /\ t # brainJson
    /\ brainJson' = t
    /\ alerts' = <<>>
    /\ event' = Ev("brainJson", "edit", "none", "")
    /\ UNCHANGED <<apiBaseEnv, busy, brainResult, visionResult, visionOverlay,
                   visionFileName, visionFile, scribeText, scribeResult,
                   pending>>

SetScribeText(t) ==
    /\ t \in ScribeInputTexts /\ t # scribeText
    /\ scribeText' = t
    /\ alerts' = <<>>
    /\ event' = Ev("scribeText", "edit", "none", "")
    /\ UNCHANGED <<apiBaseEnv, busy, brainJson, brainResult, visionResult, visionOverlay,
                   visionFileName, visionFile, scribeResult, pending>>

\* the user changes the selection of the imagery file picker
PickVisionFile(f) ==
    /\ f \in PickerFiles \cup {NoFile} /\ f # visionFile
    /\ visionFile' = f
    /\ visionFileName' = IF f # NoFile THEN f ELSE ""
    /\ alerts' = <<>>
    /\ event' = Ev("visionFile", "edit", "none", "")
    /\ UNCHANGED <<apiBaseEnv, busy, brainJson, brainResult, visionResult, visionOverlay,
                   scribeText, scribeResult, pending>>

----------------------------------------------------------------------------
(* submitBrain *)

\* viaControl: the form is submitted with its (enabled) submit button;
\* otherwise the submit event reaches the handler some other way
\* the stored result is cleared when a submission is accepted
SubmitBrain_clears(viaControl) ==
    /\ viaControl => BrainSubmitEnabled
    /\ IF ~BrainPayloadParses(brainJson)
       THEN /\ alerts' = <<"JSON is invalid. Please fix the payload and try again.">>
            /\ event' = Ev("submitBrain", "submit", "rejected", "")
            /\ UNCHANGED <<busy, pending, brainResult>>
       ELSE /\ Len(pending) < MaxInFlight
            /\ busy' = "brain"
            /\ brainResult' = JNull
            /\ pending' = Append(pending, Call("submitBrain", "brain", NoFile))
            /\ alerts' = <<>>
            /\ event' = Ev("submitBrain", "submit", "accepted", "")
    /\ UNCHANGED <<apiBaseEnv, brainJson, visionResult, visionOverlay,
                   visionFileName, visionFile, scribeText, scribeResult>>

SubmitBrain(viaControl) ==
    /\ viaControl => BrainSubmitEnabled
    /\ IF ~BrainPayloadParses(brainJson)
       THEN /\ alerts' = <<"JSON is invalid. Please fix the payload and try again.">>
            /\ event' = Ev("submitBrain", "submit", "rejected", "")
            /\ UNCHANGED <<busy, pending>>
       ELSE /\ Len(pending) < MaxInFlight
            /\ busy' = "brain"
            /\ pending' = Append(pending, Call("submitBrain", "brain", NoFile))
            /\ alerts' = <<>>
            /\ event' = Ev("submitBrain", "submit", "accepted", "")
    /\ UNCHANGED <<apiBaseEnv, brainJson, brainResult, visionResult, visionOverlay,
                   visionFileName, visionFile, scribeText, scribeResult>>

\* the catch block issues the call again
CompleteBrain_retry(i, outcome) ==
    /\ i \in DOMAIN pending /\ pending[i].handler = "submitBrain"
    /\ outcome \in BrainOutcomes
    /\ LET r == TryFetch(outcome) IN
         IF r.thrown
         THEN /\ alerts' = BrainCatch
              /\ pending' = Append(RemoveAt(pending, i), pending[i])
              /\ UNCHANGED brainResult
         ELSE /\ brainResult' = SetResult(brainResult, r.data)
              /\ pending' = RemoveAt(pending, i)
              /\ alerts' = <<>>
    /\ busy' = NoBusy
    /\ event' = Settled("submitBrain", i, outcome)
    /\ UNCHANGED <<apiBaseEnv, brainJson, visionResult, visionOverlay, visionFileName,
                   visionFile, scribeText, scribeResult>>

CompleteBrain(i, outcome) ==
    /\ i \in DOMAIN pending /\ pending[i].handler = "submitBrain"
    /\ outcome \in BrainOutcomes
    /\ LET r == TryFetch(outcome) IN
         IF r.thrown
         THEN /\ alerts' = BrainCatch
              /\ UNCHANGED brainResult
         ELSE /\ brainResult' = SetResult(brainResult, r.data)
              /\ alerts' = <<>>
    /\ busy' = NoBusy
    /\ event' = Settled("submitBrain", i, outcome)
    /\ pending' = RemoveAt(pending, i)
    /\ UNCHANGED <<apiBaseEnv, brainJson, visionResult, visionOverlay, visionFileName,
                   visionFile, scribeText, scribeResult>>

----------------------------------------------------------------------------
(* submitVision *)

\* setBusy("vision") before the file is looked at
SubmitVision_busyFirst(viaControl) ==
    /\ viaControl => VisionSubmitEnabled
    /\ busy' = "vision"
    /\ IF visionFile = NoFile
       THEN /\ alerts' = <<"Please choose an image file first.">>
            /\ event' = Ev("submitVision", "submit", "rejected", "")
            /\ UNCHANGED pending
       ELSE /\ Len(pending) < MaxInFlight
            /\ pending' = Append(pending,
                                 Call("submitVision", "vision", visionFile))
            /\ alerts' = <<>>
            /\ event' = Ev("submitVision", "submit", "accepted", "")
    /\ UNCHANGED <<apiBaseEnv, brainJson, brainResult, visionResult, visionOverlay,
                   visionFileName, visionFile, scribeText, scribeResult>>

SubmitVision(viaControl) ==
    /\ viaControl => VisionSubmitEnabled
    /\ IF visionFile = NoFile
       THEN /\ alerts' = <<"Please choose an image file first.">>
            /\ event' = Ev("submitVision", "submit", "rejected", "")
            /\ UNCHANGED <<busy, pending>>
       ELSE /\ Len(pending) < MaxInFlight
            /\ busy' = "vision"
            /\ pending' = Append(pending,
                                 Call("submitVision", "vision", visionFile))
            /\ alerts' = <<>>
            /\ event' = Ev("submitVision", "submit", "accepted", "")
    /\ UNCHANGED <<apiBaseEnv, brainJson, brainResult, visionResult, visionOverlay,
                   visionFileName, visionFile, scribeText, scribeResult>>

\* setBusy(null) at the end of the try block instead of in finally
CompleteVision_noFinally(i, outcome) ==
    /\ i \in DOMAIN pending /\ pending[i].handler = "submitVision"
    /\ outcome \in VisionOutcomes
    /\ LET r == TryFetch(outcome) IN
         IF r.thrown
         THEN /\ alerts' = VisionCatch
              /\ UNCHANGED <<visionResult, visionOverlay, visionFileName,
                             busy>>
         ELSE /\ visionResult' = SetResult(visionResult, r.data)
              /\ visionOverlay' = ResolveOverlay(r.data)
              /\ visionFileName' = pending[i].file
              /\ alerts' = <<>>
              /\ busy' = NoBusy
    /\ event' = Settled("submitVision", i, outcome)
    /\ pending' = RemoveAt(pending, i)
    /\ UNCHANGED <<apiBaseEnv, brainJson, brainResult, visionFile, scribeText,
                   scribeResult>>

\* the overlay is written only when the response has a reference
CompleteVision_keepsOverlay(i, outcome) ==
    /\ i \in DOMAIN pending /\ pending[i].handler = "submitVision"
    /\ outcome \in VisionOutcomes
    /\ LET r == TryFetch(outcome) IN
         IF r.thrown
         THEN /\ alerts' = VisionCatch
              /\ UNCHANGED <<visionResult, visionOverlay, visionFileName>>
         ELSE /\ visionResult' = SetResult(visionResult, r.data)
              /\ visionOverlay' = IF HasRef(r.data, "overlay_url")
                                  THEN ResolveOverlay(r.data)
                                  ELSE visionOverlay
              /\ visionFileName' = pending[i].file
              /\ alerts' = <<>>
    /\ busy' = NoBusy
    /\ event' = Settled("submitVision", i, outcome)
    /\ pending' = RemoveAt(pending, i)
    /\ UNCHANGED <<apiBaseEnv, brainJson, brainResult, visionFile, scribeText,
                   scribeResult>>

\* the name shown after a success is the one of the current selection
CompleteVision_currentFile(i, outcome) ==
    /\ i \in DOMAIN pending /\ pending[i].handler = "submitVision"
    /\ outcome \in VisionOutcomes
    /\ LET r == TryFetch(outcome) IN
         IF r.thrown
         THEN /\ alerts' = VisionCatch
              /\ UNCHANGED <<visionResult, visionOverlay, visionFileName>>
         ELSE /\ visionResult' = SetResult(visionResult, r.data)
              /\ visionOverlay' = ResolveOverlay(r.data)
              /\ visionFileName' = IF visionFile # NoFile THEN visionFile
                                   ELSE ""
              /\ alerts' = <<>>
    /\ busy' = NoBusy
    /\ event' = Settled("submitVision", i, outcome)
    /\ pending' = RemoveAt(pending, i)
    /\ UNCHANGED <<apiBaseEnv, brainJson, brainResult, visionFile, scribeText,
                   scribeResult>>

CompleteVision(i, outcome) ==
    /\ i \in DOMAIN pending /\ pending[i].handler = "submitVision"
    /\ outcome \in VisionOutcomes
    /\ LET r == TryFetch(outcome) IN
         IF r.thrown
         THEN /\ alerts' = VisionCatch
              /\ UNCHANGED <<visionResult, visionOverlay, visionFileName>>
         ELSE /\ visionResult' = SetResult(visionResult, r.data)
              /\ visionOverlay' = ResolveOverlay(r.data)
              /\ visionFileName' = pending[i].file
              /\ alerts' = <<>>
    /\ busy' = NoBusy
    /\ event' = Settled("submitVision", i, outcome)
    /\ pending' = RemoveAt(pending, i)
    /\ UNCHANGED <<apiBaseEnv, brainJson, brainResult, visionFile, scribeText,
                   scribeResult>>

----------------------------------------------------------------------------
(* submitScribeFile *)

\* file: scribeFileRef.current?.files?.[0] at the time of the submit event
SubmitScribeFile(viaControl, file) ==
    /\ viaControl => ScribeFileSubmitEnabled
    /\ file \in Files \cup {NoFile}
    /\ IF file = NoFile
       THEN /\ alerts' = <<"Please select a PDF or text file.">>
            /\ event' = Ev("submitScribeFile", "submit", "rejected", file)
            /\ UNCHANGED <<busy, pending>>
       ELSE /\ Len(pending) < MaxInFlight
            /\ busy' = "scribe"
            /\ pending' = Append(pending,
                                 Call("submitScribeFile", "scribe", file))
            /\ alerts' = <<>>
            /\ event' = Ev("submitScribeFile", "submit", "accepted", file)
    /\ UNCHANGED <<apiBaseEnv, brainJson, brainResult, visionResult, visionOverlay,
                   visionFileName, visionFile, scribeText, scribeResult>>

\* the catch block stores an error object as the result
CompleteScribeFile_storesError(i, outcome) ==
    /\ i \in DOMAIN pending /\ pending[i].handler = "submitScribeFile"
    /\ outcome \in ScribeOutcomes
    /\ LET r == TryFetch(outcome) IN
         IF r.thrown
         THEN /\ alerts' = ScribeFileCatch
              /\ scribeResult' = [error |-> "extraction failed"]
         ELSE /\ scribeResult' = SetResult(scribeResult, r.data)
              /\ alerts' = <<>>
    /\ busy' = NoBusy
    /\ event' = Settled("submitScribeFile", i, outcome)
    /\ pending' = RemoveAt(pending, i)
    /\ UNCHANGED <<apiBaseEnv, brainJson, brainResult, visionResult, visionOverlay,
                   visionFileName, visionFile, scribeText>>

CompleteScribeFile(i, outcome) ==
    /\ i \in DOMAIN pending /\ pending[i].handler = "submitScribeFile"
    /\ outcome \in ScribeOutcomes
    /\ LET r == TryFetch(outcome) IN
         IF r.thrown
         THEN /\ alerts' = ScribeFileCatch
              /\ UNCHANGED scribeResult
         ELSE /\ scribeResult' = SetResult(scribeResult, r.data)
              /\ alerts' = <<>>
    /\ busy' = NoBusy
    /\ event' = Settled("submitScribeFile", i, outcome)
    /\ pending' = RemoveAt(pending, i)
    /\ UNCHANGED <<apiBaseEnv, brainJson, brainResult, visionResult, visionOverlay,
                   visionFileName, visionFile, scribeText>>

----------------------------------------------------------------------------
(* submitScribeText *)

SubmitScribeText(viaControl) ==
    /\ viaControl => ScribeTextSubmitEnabled
    /\ IF ~ScribeTextPresent(scribeText)
       THEN /\ alerts' = <<>>
            /\ event' = Ev("submitScribeText", "submit", "rejected", "")
            /\ UNCHANGED <<busy, pending>>
       ELSE /\ Len(pending) < MaxInFlight
            /\ busy' = "scribe"
            /\ pending' = Append(pending,
                                 Call("submitScribeText", "scribe", NoFile))
            /\ alerts' = <<>>
            /\ event' = Ev("submitScribeText", "submit", "accepted", "")
    /\ UNCHANGED <<apiBaseEnv, brainJson, brainResult, visionResult, visionOverlay,
                   visionFileName, visionFile, scribeText, scribeResult>>

\* the response is stored in the risk panel's slot
CompleteScribeText_wrongSlot(i, outcome) ==
    /\ i \in DOMAIN pending /\ pending[i].handler = "submitScribeText"
    /\ outcome \in ScribeOutcomes
    /\ LET r == TryFetch(outcome) IN
         IF r.thrown
         THEN /\ alerts' = ScribeTextCatch
              /\ UNCHANGED brainResult
         ELSE /\ brainResult' = SetResult(brainResult, r.data)
              /\ alerts' = <<>>
    /\ busy' = NoBusy
    /\ event' = Settled("submitScribeText", i, outcome)
    /\ pending' = RemoveAt(pending, i)
    /\ UNCHANGED <<apiBaseEnv, brainJson, scribeResult, visionResult, visionOverlay,
                   visionFileName, visionFile, scribeText>>

\* a response is dropped when an earlier call of the panel is in flight
CompleteScribeText_inOrderOnly(i, outcome) ==
    /\ i \in DOMAIN pending /\ pending[i].handler = "submitScribeText"
    /\ outcome \in ScribeOutcomes
    /\ LET r == TryFetch(outcome) IN
         IF r.thrown
         THEN /\ alerts' = ScribeTextCatch
              /\ UNCHANGED scribeResult
         ELSE /\ scribeResult' =
                    IF \E j \in 1..(i - 1) : pending[j].panel = "scribe"
                    THEN scribeResult
                    ELSE SetResult(scribeResult, r.data)
              /\ alerts' = <<>>
    /\ busy' = NoBusy
    /\ event' = Settled("submitScribeText", i, outcome)
    /\ pending' = RemoveAt(pending, i)
    /\ UNCHANGED <<apiBaseEnv, brainJson, brainResult, visionResult, visionOverlay,
                   visionFileName, visionFile, scribeText>>

CompleteScribeText(i, outcome) ==
    /\ i \in DOMAIN pending /\ pending[i].handler = "submitScribeText"
    /\ outcome \in ScribeOutcomes
    /\ LET r == TryFetch(outcome) IN
         IF r.thrown
         THEN /\ alerts' = ScribeTextCatch
              /\ UNCHANGED scribeResult
         ELSE /\ scribeResult' = SetResult(scribeResult, r.data)
              /\ alerts' = <<>>
    /\ busy' = NoBusy
    /\ event' = Settled("submitScribeText", i, outcome)
    /\ pending' = RemoveAt(pending, i)
    /\ UNCHANGED <<apiBaseEnv, brainJson, brainResult, visionResult, visionOverlay,
                   visionFileName, visionFile, scribeText>>

----------------------------------------------------------------------------
(* Specifications *)

Edit ==
    \/ \E t \in BrainJsonTexts : SetBrainJson(t)
    \/ \E t \in ScribeInputTexts : SetScribeText(t)
    \/ \E f \in Files \cup {NoFile} : PickVisionFile(f)

Complete ==
    \/ \E i \in 1..MaxInFlight, o \in Outcomes(BrainTexts) : CompleteBrain(i, o)
    \/ \E i \in 1..MaxInFlight, o \in Outcomes(VisionTexts) : CompleteVision(i, o)
    \/ \E i \in 1..MaxInFlight, o \in Outcomes(ScribeTexts) :
          CompleteScribeFile(i, o)
    \/ \E i \in 1..MaxInFlight, o \in Outcomes(ScribeTexts) :
          CompleteScribeText(i, o)

\* submit events reach the handlers in any way
Next ==
    \/ Edit
    \/ Complete
    \/ \E c \in BOOLEAN : SubmitBrain(c)
    \/ \E c \in BOOLEAN : SubmitVision(c)
    \/ \E c \in BOOLEAN, f \in Files \cup {NoFile} : SubmitScribeFile(c, f)
    \/ \E c \in BOOLEAN : SubmitScribeText(c)

Spec == Init /\ [][Next]_vars

\* submit events come only from enabled submit controls
NextControls ==
    \/ Edit
    \/ Complete
    \/ SubmitBrain(TRUE)
    \/ SubmitVision(TRUE)
    \/ \E f \in Files \cup {NoFile} : SubmitScribeFile(TRUE, f)
    \/ SubmitScribeText(TRUE)

SpecControls == Init /\ [][NextControls]_vars

\* the risk panel alone, with responses that leave fields out
NextBrain ==
    \/ \E t \in BrainJsonTexts : SetBrainJson(t)
    \/ \E c \in BOOLEAN : SubmitBrain(c)
    \/ \E i \in 1..MaxInFlight, o \in BrainOutcomes : CompleteBrain(i, o)

SpecBrain == Init /\ [][NextBrain]_vars

\* the risk panel and the extraction of a file, with responses that carry
\* long and empty lists whose entries have every field
NextLists ==
    \/ \E c \in BOOLEAN : SubmitBrain(c)
    \/ \E i \in 1..MaxInFlight, o \in Outcomes(BrainTexts \cup ListBrainTexts) :
          CompleteBrain(i, o)
    \/ \E c \in BOOLEAN, f \in Files \cup {NoFile} : SubmitScribeFile(c, f)
    \/ \E i \in 1..MaxInFlight, o \in ScribeOutcomes :
          CompleteScribeFile(i, o)

SpecLists == Init /\ [][NextLists]_vars

\* the imagery panel alone, used through its controls, with a picker
\* that can hold either of two files
NextPicker ==
    \/ \E f \in PickerFiles \cup {NoFile} : PickVisionFile(f)
    \/ SubmitVision(TRUE)
    \/ \E i \in 1..MaxInFlight, o \in Outcomes(VisionTexts \cup OverlayTexts) :
          CompleteVision(i, o)

SpecPicker == Init /\ [][NextPicker]_vars

\* the imagery panel alone, under either deployment and with responses
\* that carry any compliance ratio
InitVision ==
    \E env \in ApiBaseEnvs :
        /\ apiBaseEnv = env
        /\ busy = NoBusy
        /\ brainJson = DefaultBrainJson
        /\ brainResult = JNull
        /\ visionResult = JNull
        /\ visionOverlay = NoOverlay
        /\ visionFileName = ""
        /\ visionFile = NoFile
        /\ scribeText = <<>>
        /\ scribeResult = JNull
        /\ pending = <<>>
        /\ alerts = <<>>
        /\ event = [handler |-> "none", kind |-> "init", cause |-> "none",
                    text |-> "", overtook |-> FALSE]

NextVision ==
    \/ \E f \in Files \cup {NoFile} : PickVisionFile(f)
    \/ \E c \in BOOLEAN : SubmitVision(c)
    \/ \E i \in 1..MaxInFlight, o \in VisionOutcomes : CompleteVision(i, o)

SpecVision == InitVision /\ [][NextVision]_vars

----------------------------------------------------------------------------
(* Properties *)

\* the submit controls of a panel are all disabled
ControlsDisabled(p) ==
    CASE p = "brain"  -> ~BrainSubmitEnabled
      [] p = "vision" -> ~VisionSubmitEnabled
      [] p = "scribe" -> ~ScribeFileSubmitEnabled /\ ~ScribeTextSubmitEnabled

\* the latest step was a step of one of the four handlers
HandlerStep == event.kind \in {"submit", "settled"}

\* the latest step finished a handler whose call failed
FailedStep == event.kind = "settled" /\ event.cause # "ok"

\* the latest step finished a handler whose call succeeded
SucceededStep == event.kind = "settled" /\ event.cause = "ok"

WhitespaceOnly(text) == \A i \in DOMAIN text : text[i] \in Whitespace

\* C1: a panel with a request in flight is marked busy and its submit
\* controls are disabled (both controls of the extraction panel).
C1_InFlightIsBusy ==
    \A p \in Panels : InFlight(p) => ShownBusy(p) /\ ControlsDisabled(p)

\* C2: when any of the four handlers finishes after its call settled, in
\* whichever way (parsed body, unparseable body, non-2xx, transport error),
\* the busy flag is null.
C2_BusyClearedOnCompletion ==
    \A h \in {"submitBrain", "submitVision", "submitScribeFile",
              "submitScribeText"} :
        \A c \in {"ok", "parse", "status", "transport"} :
            (event.kind = "settled" /\ event.handler = h /\ event.cause = c)
                => busy = NoBusy

\* a vision call failed on an unparseable body while a risk call is still
\* in flight, and the flag was cleared
C2_Witness ==
    /\ event.kind = "settled" /\ event.handler = "submitVision"
    /\ event.cause = "parse"
    /\ InFlight("brain")
    /\ busy = NoBusy

\* C3: a failed call (non-2xx, transport error, unparseable body) leaves
\* the stored result of its panel as it was, the imagery overlay included.
C3_FailureKeepsResult ==
    [][FailedStep' =>
         /\ event'.handler = "submitBrain" => brainResult' = brainResult
         /\ event'.handler = "submitVision" =>
                /\ visionResult' = visionResult
                /\ visionOverlay' = visionOverlay
         /\ event'.handler \in {"submitScribeFile", "submitScribeText"} =>
                scribeResult' = scribeResult]_vars

\* an imagery call answered with a non-2xx status when a result with an
\* overlay was stored, and both are still there
C3_Witness ==
    /\ FailedStep /\ event.handler = "submitVision" /\ event.cause = "status"
    /\ visionResult = VisionA
    /\ visionOverlay = API_BASE \o "/overlays/x.png"

\* C4: after a successful call the stored result of the panel is exactly
\* the parsed body of that response; nothing of the prior result is kept.
C4_SuccessReplacesResult ==
    SucceededStep =>
        /\ event.handler = "submitBrain" =>
               brainResult = JSONParse(event.text).value
        /\ event.handler = "submitVision" =>
               visionResult = JSONParse(event.text).value
        /\ event.handler \in {"submitScribeFile", "submitScribeText"} =>
               scribeResult = JSONParse(event.text).value

\* the risk panel stored the body without a contributor list
C4_Witness ==
    /\ SucceededStep /\ event.handler = "submitBrain"
    /\ event.text = "brainB"
    /\ brainResult = BrainB

\* C5: a submit event of the imagery form or of the extraction file form
\* with no file, or of the extraction text form with empty or
\* whitespace-only text, issues no call and keeps the panel's result.
C5_MissingInputNoCall ==
    [][(/\ event'.kind = "submit"
        /\ \/ event'.handler = "submitVision" /\ visionFile = NoFile
           \/ event'.handler = "submitScribeFile" /\ event'.text = NoFile
           \/ event'.handler = "submitScribeText" /\ WhitespaceOnly(scribeText))
       => /\ pending' = pending
          /\ visionResult' = visionResult
          /\ visionOverlay' = visionOverlay
          /\ scribeResult' = scribeResult]_vars

\* the text form was submitted with whitespace only while a result was
\* stored and no call is in flight
C5_Witness ==
    /\ event.kind = "submit" /\ event.handler = "submitScribeText"
    /\ scribeText = <<" ">>
    /\ scribeResult = ScribeA
    /\ pending = <<>>

\* C6: a payload text that does not parse as JSON, the empty text
\* included, is reported and no call is issued; a call to /predict-delay is
\* issued only when the entered text itself parses as JSON.
C6_InvalidJsonNoCall ==
    [][(event'.kind = "submit" /\ event'.handler = "submitBrain"
        /\ ~JSONParse(brainJson).ok)
       => pending' = pending /\ alerts' # <<>>]_vars

\* C6 as amended: a non-empty payload text that does not parse as JSON is
\* reported and no call is issued; a call is issued only when the text
\* parses as JSON or is empty.
C6_NonEmptyInvalidJsonNoCall ==
    [][(event'.kind = "submit" /\ event'.handler = "submitBrain") =>
         /\ (brainJson # "" /\ ~JSONParse(brainJson).ok)
                => pending' = pending /\ alerts' # <<>>
         /\ pending' # pending
                => brainJson = "" \/ JSONParse(brainJson).ok]_vars

\* a malformed payload was submitted and reported
C6_Witness ==
    /\ event.kind = "submit" /\ event.handler = "submitBrain"
    /\ brainJson = "{bad"
    /\ alerts # <<>>
    /\ ~InFlight("brain")

\* C7: no panel has two calls outstanding at the same time.
C7_OneCallPerPanel == \A p \in Panels : CallsInFlight(p) <= 1

\* C8: a submission or a completion in one panel changes neither whether
\* another panel is shown busy nor whether its controls are enabled.
C8_BusyIndependent ==
    [][HandlerStep' =>
         \A p \in Panels \ {PanelOf(event'.handler)} :
             /\ ShownBusy(p)' = ShownBusy(p)
             /\ ControlsDisabled(p)' = ControlsDisabled(p)]_vars

\* C9: a submit, success or failure of one panel leaves the stored results
\* of the other two panels unchanged.
C9_ResultsIndependent ==
    [][HandlerStep' =>
         /\ PanelOf(event'.handler) # "brain" => brainResult' = brainResult
         /\ PanelOf(event'.handler) # "vision" =>
                visionResult' = visionResult /\ visionOverlay' = visionOverlay
         /\ PanelOf(event'.handler) # "scribe" =>
                scribeResult' = scribeResult]_vars

\* an extraction call succeeded while the other two panels hold results
C9_Witness ==
    /\ SucceededStep /\ event.handler = "submitScribeText"
    /\ brainResult = BrainA
    /\ visionResult = VisionA
    /\ visionOverlay # NoOverlay

\* the latest step was a submit event whose input fails local validation
InvalidInputStep ==
    /\ event.kind = "submit"
    /\ \/ event.handler = "submitVision" /\ visionFile = NoFile
       \/ event.handler = "submitScribeFile" /\ event.text = NoFile
       \/ event.handler = "submitScribeText" /\ WhitespaceOnly(scribeText)
       \/ event.handler = "submitBrain" /\ ~JSONParse(brainJson).ok

\* C10: every local validation failure is reported at once by a blocking
\* notice, and every failed call produces exactly one failure notice.
C10_EveryFailureNotified ==
    /\ InvalidInputStep => Len(alerts) = 1
    /\ FailedStep => Len(alerts) = 1

\* C10 as amended: a missing file in the imagery or extraction file form
\* and a non-empty malformed risk payload are reported at once by one
\* blocking notice, an empty or whitespace-only extraction text aborts
\* without a notice, and every failed call produces exactly one failure
\* notice.
C10_FailuresNotifiedButEmptyText ==
    /\ (InvalidInputStep /\ event.handler \in {"submitVision",
                                                "submitScribeFile"})
           => Len(alerts) = 1
    /\ (InvalidInputStep /\ event.handler = "submitBrain" /\ brainJson # "")
           => Len(alerts) = 1
    /\ (InvalidInputStep /\ event.handler = "submitScribeText")
           => alerts = <<>>
    /\ FailedStep => Len(alerts) = 1

\* a risk call failed in transport and one notice was raised
C10_Witness ==
    /\ FailedStep /\ event.handler = "submitBrain"
    /\ event.cause = "transport"
    /\ alerts = BrainCatch

\* the stored result of a panel
Result(p) ==
    CASE p = "brain"  -> brainResult
      [] p = "vision" -> visionResult
      [] p = "scribe" -> scribeResult

\* the calls of a panel that are in flight, in submission order
CallsOf(p) == SelectSeq(pending, LAMBDA c : c.panel = p)

\* the input of the submit event of the latest step passes the local
\* validation of its form (read before the step: a submit event leaves the
\* inputs as they are)
InputValid(e) ==
    \/ e.handler = "submitBrain" /\ (brainJson = "" \/ JSONParse(brainJson).ok)
    \/ e.handler = "submitVision" /\ visionFile # NoFile
    \/ e.handler = "submitScribeFile" /\ e.text # NoFile
    \/ e.handler = "submitScribeText" /\ ~WhitespaceOnly(scribeText)

\* C11: no retries.  A submission that passes local validation issues
\* exactly one call, any other step issues none, and the rest of a handler
\* after its call settled (failed or not) only takes that call away.
C11_OneCallPerSubmission ==
    [][/\ (event'.kind = "submit" /\ InputValid(event')) =>
              /\ Len(pending') = Len(pending) + 1
              /\ SubSeq(pending', 1, Len(pending)) = pending
              /\ pending'[Len(pending')].handler = event'.handler
       /\ (event'.kind = "submit" /\ ~InputValid(event')) =>
              pending' = pending
       /\ event'.kind = "settled" =>
              \E i \in DOMAIN pending :
                  /\ pending[i].handler = event'.handler
                  /\ pending' = RemoveAt(pending, i)
       /\ event'.kind = "edit" => pending' = pending]_vars

\* a risk call failed and no call is in flight afterwards
C11_Witness ==
    /\ FailedStep /\ event.handler = "submitBrain" /\ event.cause = "status"
    /\ pending = <<>>

\* C12: a panel's result is null at the start, and it goes from null to
\* non-null only in the step that finishes a successful call of that panel.
C12_ResultOnlyFromSuccess ==
    /\ \A p \in Panels : Result(p) = JNull
    /\ [][\A p \in Panels :
            (Result(p) = JNull /\ Result(p)' # JNull) =>
                (SucceededStep' /\ PanelOf(event'.handler) = p)]_vars

\* the imagery panel got its first result while the other two have none
C12_Witness ==
    /\ SucceededStep /\ event.handler = "submitVision"
    /\ visionResult = VisionB
    /\ brainResult = JNull /\ scribeResult = JNull

\* C13: once a new submission of a panel has been accepted, the result the
\* panel had stored is no longer held.
C13_SubmitDiscardsResult ==
    (event.kind = "submit" /\ event.cause = "accepted")
        => Result(PanelOf(event.handler)) = JNull

\* C13 as amended: a submission of a panel, accepted or not, leaves the
\* panel's stored result (and the imagery overlay) as it was.
C13_SubmitKeepsResult ==
    [][event'.kind = "submit" =>
         /\ \A p \in Panels :
                PanelOf(event'.handler) = p => Result(p)' = Result(p)
         /\ visionOverlay' = visionOverlay]_vars

\* a risk submission was accepted and the earlier result is still stored
C13_Witness ==
    /\ event.kind = "submit" /\ event.handler = "submitBrain"
    /\ event.cause = "accepted"
    /\ InFlight("brain")
    /\ brainResult = BrainA

\* C14: storing and rendering a successful response completes without a
\* runtime error whichever fields the body leaves out.
C14_RenderNeverThrows == ~RenderThrows

\* C17: a download link is shown exactly when the stored extraction result
\* has a download reference, its target is the base URL followed by that
\* reference, and after a successful extraction the link is there exactly
\* when that response carried a reference.
C17_DownloadLink ==
    /\ DownloadLinkShown <=>
          (scribeResult # JNull /\ "export_csv_url" \in DOMAIN scribeResult)
    /\ DownloadLinkShown =>
          DownloadHref = "http://localhost:8000" \o scribeResult.export_csv_url
    /\ (SucceededStep /\ PanelOf(event.handler) = "scribe") =>
          LET body == JSONParse(event.text).value IN
          /\ DownloadLinkShown <=>
                (body # JNull /\ "export_csv_url" \in DOMAIN body)
          /\ DownloadLinkShown =>
                DownloadHref = "http://localhost:8000" \o body.export_csv_url

\* an extraction with a reference is stored and its link is shown
C17_Witness ==
    /\ SucceededStep /\ event.handler = "submitScribeFile"
    /\ event.text = "scribeA"
    /\ DownloadLinkShown
    /\ DownloadHref = "http://localhost:8000/exports/report.csv"

\* the imagery result stored has a numeric compliance ratio
HasRatio ==
    visionResult # JNull /\ "compliance_rate" \in DOMAIN visionResult

\* C15: the tone is good when the ratio is at least 90%, monitor when it is
\* at least 70% and below 90%, critical below 70% (0.95 shows 95% and good,
\* 0.75 monitor, 0.5 critical), and undefined without a numeric ratio.
C15_ToneBandsOfRatio ==
    /\ HasRatio =>
          LET r == visionResult.compliance_rate IN
          /\ r >= 900 => ComplianceTone = "ok"
          /\ (r >= 700 /\ r < 900) => ComplianceTone = "warn"
          /\ r < 700 => ComplianceTone = "bad"
          /\ r = 950 => CompliancePct = 95
    /\ ~HasRatio => ComplianceTone = "undefined"

\* C15 as amended: the tone follows the percentage as displayed, i.e. the
\* ratio rounded to a whole percent: good when that is at least 90 (ratio
\* from 0.895), monitor when it is at least 70 and below 90 (ratio from
\* 0.695 and below 0.895), critical when it is below 70 (ratio below
\* 0.695); 0.95 shows 95% and good, 0.75 monitor, 0.5 critical; undefined
\* without a numeric ratio.
C15_ToneBandsOfRoundedPct ==
    /\ HasRatio =>
          LET r == visionResult.compliance_rate IN
          /\ r >= 895 => ComplianceTone = "ok"
          /\ (r >= 695 /\ r < 895) => ComplianceTone = "warn"
          /\ r < 695 => ComplianceTone = "bad"
          /\ r = 950 => CompliancePct = 95 /\ ComplianceTone = "ok"
          /\ r = 750 => ComplianceTone = "warn"
          /\ r = 500 => ComplianceTone = "bad"
    /\ ~HasRatio => ComplianceTone = "undefined"

\* a response with the ratio 0.895 is stored: it shows 90% and good
C15_Witness ==
    /\ SucceededStep /\ event.handler = "submitVision"
    /\ HasRatio
    /\ visionResult.compliance_rate = 895
    /\ CompliancePct = 90
    /\ ComplianceTone = "ok"

\* C16: after a successful imagery response with an overlay reference the
\* stored overlay is the configured base URL followed by the reference
\* (https://api.example.com and /overlays/x.png give
\* https://api.example.com/overlays/x.png); after one without a reference
\* it is null, whatever it was before.
C16_OverlayResolved ==
    (SucceededStep /\ event.handler = "submitVision") =>
        LET body == JSONParse(event.text).value
            base == IF apiBaseEnv = "" THEN "http://localhost:8000"
                    ELSE apiBaseEnv
        IN  /\ (body # JNull /\ "overlay_url" \in DOMAIN body) =>
                   visionOverlay = base \o body.overlay_url
            /\ (body = JNull \/ "overlay_url" \notin DOMAIN body) =>
                   visionOverlay = NoOverlay
            /\ (event.text = "visionA" /\ apiBaseEnv = "https://api.example.com")
                   => visionOverlay = "https://api.example.com/overlays/x.png"

\* a response without a reference arrived while a call whose overlay would
\* have been kept is no longer stored: the overlay is null again
C16_Witness ==
    /\ SucceededStep /\ event.handler = "submitVision"
    /\ event.text = "visionB"
    /\ apiBaseEnv = "https://api.example.com"
    /\ visionResult = VisionB
    /\ visionOverlay = NoOverlay

\* C18: while a panel's calls stay in flight (none of them settles), a
\* panel that is shown busy stays shown busy with its controls disabled,
\* whatever the other panels do.
C18_HungCallStaysBusy ==
    [][\A p \in Panels :
         (ShownBusy(p) /\ InFlight(p) /\ CallsOf(p)' = CallsOf(p)) =>
             (ShownBusy(p)' /\ ControlsDisabled(p)')]_vars

\* C19: responses are applied in the order they resolve.  A panel's
\* stored result changes exactly in the steps in which a successful
\* response of that panel resolves, and then it is the body of that
\* response, also when the call overtook an earlier call of the panel; so
\* the result is always the body of the latest successful response.
C19_LatestResolvedWins ==
    [][\A p \in Panels :
         IF SucceededStep' /\ PanelOf(event'.handler) = p
         THEN Result(p)' = JSONParse(event'.text).value
         ELSE Result(p)' = Result(p)]_vars

\* a text extraction submitted after a file extraction resolved first,
\* with the file extraction still in flight, and its body is the result
C19_Witness ==
    /\ SucceededStep /\ event.handler = "submitScribeText"
    /\ event.overtook
    /\ event.text = "scribeB"
    /\ scribeResult = ScribeB
    /\ \E i \in DOMAIN pending : pending[i].handler = "submitScribeFile"

\* C20: if the busy flag names a panel, a call of that panel is in flight.
C20_BusyNamesInFlight == \A p \in Panels : busy = p => InFlight(p)

\* the flag names the extraction panel while a risk call is in flight too
C20_Witness ==
    /\ busy = "scribe"
    /\ InFlight("scribe")
    /\ InFlight("brain")

\* C21: in every state the stored overlay agrees with the stored imagery
\* result: it is non-null exactly when the result exists and has a
\* non-empty overlay reference, and is then the base URL followed by that
\* reference, however overlapping imagery calls settle.
C21_OverlayMatchesResult ==
    LET has == /\ visionResult # JNull
               /\ "overlay_url" \in DOMAIN visionResult
               /\ visionResult.overlay_url # ""
        base == IF apiBaseEnv = "" THEN "http://localhost:8000"
                ELSE apiBaseEnv
    IN  /\ (visionOverlay # NoOverlay) <=> has
        /\ has => visionOverlay = base \o visionResult.overlay_url

\* a call that settled before an older imagery call stored its result and
\* the overlay of that result
C21_Witness ==
    /\ SucceededStep /\ event.handler = "submitVision"
    /\ event.overtook
    /\ event.text = "visionC"
    /\ apiBaseEnv = "https://api.example.com"
    /\ visionResult = VisionC
    /\ visionOverlay = "https://api.example.com/overlays/y.png"

\* the name the picker's change handler last set
PickerName == IF visionFile = NoFile THEN "" ELSE visionFile

\* an imagery call has just been made
VisionCallMade ==
    /\ event.handler = "submitVision"
    /\ event.kind = "submit" /\ event.cause = "accepted"

\* the imagery call that has just settled carried file f
SettledCallHad(f) ==
    \E i \in DOMAIN pending :
        /\ pending[i].handler = "submitVision"
        /\ pending' = RemoveAt(pending, i)
        /\ pending[i].file = f

\* C22: the imagery call uploads the file selected when it was submitted;
\* on success the displayed file name becomes that file's name whatever the
\* picker holds by then; on failure the displayed file name is the one the
\* picker's change handler last set.
C22_FailureKeepsPickerName ==
    [][/\ VisionCallMade' =>
             /\ visionFile # NoFile
             /\ pending'[Len(pending')].file = visionFile
       /\ (SucceededStep' /\ event'.handler = "submitVision") =>
             SettledCallHad(visionFileName')
       /\ (FailedStep' /\ event'.handler = "submitVision") =>
             visionFileName' = PickerName']_vars

\* C22 as amended: the imagery call uploads the file selected when it was
\* submitted; on success the displayed file name becomes that file's name
\* whatever the picker holds by then; on failure the displayed file name
\* is left as it was, which is the name an earlier success set when that
\* was the last write.
C22_FailureKeepsShownName ==
    [][/\ VisionCallMade' =>
             /\ visionFile # NoFile
             /\ pending'[Len(pending')].file = visionFile
       /\ (SucceededStep' /\ event'.handler = "submitVision") =>
             SettledCallHad(visionFileName')
       /\ (FailedStep' /\ event'.handler = "submitVision") =>
             visionFileName' = visionFileName]_vars

\* a call made with site.png succeeded after the picker was changed to
\* gate.png: the name shown is site.png
C22_Witness ==
    /\ SucceededStep /\ event.handler = "submitVision"
    /\ visionFile = "gate.png"
    /\ visionFileName = "site.png"

\* the contributors / issues of the stored results (none when absent)
StoredContributors ==
    IF brainResult # JNull /\ "top_contributors" \in DOMAIN brainResult
    THEN brainResult.top_contributors ELSE <<>>

StoredIssues ==
    IF scribeResult # JNull /\ "issues" \in DOMAIN scribeResult
    THEN scribeResult.issues ELSE <<>>

\* shown is the first six entries of stored, in order
FirstSixOf(shown, stored) ==
    /\ Len(shown) = IF Len(stored) < 6 THEN Len(stored) ELSE 6
    /\ \A k \in DOMAIN shown : shown[k] = stored[k]

\* C23: the risk panel lists the first six contributors of the stored
\* result and the extraction panel the first six issues, in response
\* order; a list section is there exactly when its list is present and
\* non-empty; the stored result keeps every entry of the response.
C23_FirstSixListed ==
    /\ FirstSixOf(ContributorsShown, StoredContributors)
    /\ FirstSixOf(IssuesShown, StoredIssues)
    /\ ContributorsSectionShown <=> StoredContributors # <<>>
    /\ IssuesSectionShown <=> StoredIssues # <<>>
    /\ ~ContributorsSectionShown => ContributorsShown = <<>>
    /\ ~IssuesSectionShown => IssuesShown = <<>>
    /\ (SucceededStep /\ event.handler = "submitBrain") =>
          brainResult = JSONParse(event.text).value
    /\ (SucceededStep /\ event.handler = "submitScribeFile") =>
          scribeResult = JSONParse(event.text).value

\* responses with seven contributors and seven issues are stored whole and
\* six of each are listed
C23_Witness ==
    /\ SucceededStep /\ event.handler = "submitScribeFile"
    /\ event.text = "scribeC"
    /\ Len(StoredIssues) = 7 /\ Len(IssuesShown) = 6
    /\ brainResult = BrainD
    /\ Len(StoredContributors) = 7 /\ Len(ContributorsShown) = 6

====
